---- MODULE Spec2Model ----
(***************************************************************************)
(* Model of the Marketplace Selling Assistant (src/app.py): the call_grok  *)
(* client, the "Generate Listing" handler (image intake, request, parse of *)
(* the model's answer, display), the availability collection and the       *)
(* "Generate Response" handler of the Streamlit script.                    *)
(*                                                                         *)
(* Text is a sequence of tokens.  The three section markers, "http", the   *)
(* word "Error", the U+2212 minus sign, the hyphen and the white space     *)
(* characters are tokens of their own; "x" stands for any other character. *)
(* No marker is a substring of another and none starts with the last       *)
(* character of one, so occurrences of markers never overlap and str.split *)
(* on a marker is exactly a split on the marker token.                     *)
(***************************************************************************)
EXTENDS Integers, Sequences, FiniteSets, TLC

VARIABLES
    uploaded_files,      \* st.file_uploader: sequence of [name, data]
    is_bundle,           \* st.checkbox "This is a bundle/lot"
    buyer_message,       \* st.text_area "Paste Buyer Message Here"
    avail,               \* the 7 x (morning, afternoon, evening, custom) widgets
    storage,             \* files of the working directory: name -> bytes
    call,                \* arguments of this run's call_grok invocation
    ret,                 \* what call_grok returned (or that it raised)
    payload,             \* the request body built by call_grok
    sent,                \* number of POSTs issued so far
    combined_output,     \* the answer after line 78
    item_name,
    description,
    price_suggestion,
    links,
    retry_button,        \* the "Retry Generation" button is rendered
    availability_str,
    suggested_responses,
    view,                \* what this script run rendered
    event,               \* the user event that triggered this script run
    write_log,           \* names passed to open(..., "wb") by this run
    runs,                \* script runs so far
    given                \* the fields an answer in the requested skeleton was built from

widgetVars == <<uploaded_files, is_bundle, buyer_message, avail>>
clientVars == <<call, ret, payload, sent>>
listingVars == <<combined_output, item_name, description, price_suggestion, links, retry_button>>
responseVars == <<availability_str, suggested_responses>>
vars == <<uploaded_files, is_bundle, buyer_message, avail, storage, call, ret, payload,
          sent, combined_output, item_name, description, price_suggestion, links,
          retry_button, availability_str, suggested_responses, view, event, write_log,
          runs, given>>

----------------------------------------------------------------------------
(* Bounds of the model *)

MaxLen == 5          \* longest arbitrary answer text, in tokens
MaxFieldTotal == 5   \* tokens of X, Y and Z together in a skeleton answer
MaxActiveDays == 2   \* days with a selection in a drawn availability grid
MaxRuns == 3         \* script runs (user events) of one session
MaxFiles == 2        \* files of one upload batch

----------------------------------------------------------------------------
(* Tokens *)

TITLE == "Title:"
DESC == "Description:"
PRICE == "Price:"
SP == " "
NL == "\n"
MINUS == "U+2212"
HYPHEN == "-"
HTTP == "http"
CH == "x"
ERROR == "Error"

Whitespace == {SP, NL}

(* "Error: No price info", line 84 *)
ErrNoPrice == <<ERROR, ":", SP, "No", SP, "price", SP, "info">>

(* "Error: Incomplete response - try better photos or details", line 90 *)
ErrIncomplete ==
    <<ERROR, ":", SP, "Incomplete", SP, "response", SP, HYPHEN, SP, "try", SP,
      "better", SP, "photos", SP, "or", SP, "details">>

ItemTitle == <<"Item">>

----------------------------------------------------------------------------
(* Python string operations, on token sequences *)

(* x in s *)
Contains(s, tok) == \E i \in 1..Len(s) : s[i] = tok

(* s.find(tok) + 1: the first occurrence, 0 when there is none *)
IndexOf(s, tok) ==
    IF Contains(s, tok)
    THEN CHOOSE i \in 1..Len(s) : s[i] = tok /\ \A j \in 1..(i - 1) : s[j] # tok
    ELSE 0

(* s.replace(old, new) *)
Replace(s, old, new) == [i \in 1..Len(s) |-> IF s[i] = old THEN new ELSE s[i]]

(* s.split(sep): the parts between all occurrences of sep *)
RECURSIVE Split(_, _)
Split(s, sep) ==
    LET i == IndexOf(s, sep)
    IN  IF i = 0
        THEN <<s>>
        ELSE <<SubSeq(s, 1, i - 1)>> \o Split(SubSeq(s, i + 1, Len(s)), sep)

RECURSIVE LStrip(_)
LStrip(s) ==
    IF s # <<>> /\ Head(s) \in Whitespace THEN LStrip(Tail(s)) ELSE s

RECURSIVE RStrip(_)
RStrip(s) ==
    IF s # <<>> /\ s[Len(s)] \in Whitespace THEN RStrip(SubSeq(s, 1, Len(s) - 1)) ELSE s

(* s.lstrip() in place of s.strip() *)
Strip_LeftOnly(s) == LStrip(s)

(* s.strip() *)
Strip(s) == RStrip(LStrip(s))

(* length of the leading run of non-white-space tokens *)
RECURSIVE WordLen(_)
WordLen(s) ==
    IF s = <<>> \/ Head(s) \in Whitespace THEN 0 ELSE 1 + WordLen(Tail(s))

(* s.split(): the maximal runs of non-white-space, in order *)
RECURSIVE Words(_)
Words(s) ==
    LET t == LStrip(s)
    IN  IF t = <<>>
        THEN <<>>
        ELSE LET n == WordLen(t)
             IN  <<SubSeq(t, 1, n)>> \o Words(SubSeq(t, n + 1, Len(t)))

(* word.startswith(tok) *)
StartsWith(w, tok) == Len(w) >= 1 /\ w[1] = tok

----------------------------------------------------------------------------
(* The listing parse, lines 78-91 *)

(* line 78 *)
Normalize(text) == Replace(text, MINUS, HYPHEN)

(* line 79 *)
HasAllMarkers(text) ==
    Contains(text, TITLE) /\ Contains(text, DESC) /\ Contains(text, PRICE)

(* "http" in word in place of word.startswith("http") *)
ExtractLinks_Anywhere(price) == SelectSeq(Words(price), LAMBDA w : Contains(w, HTTP))

(* line 86 *)
ExtractLinks(price) == SelectSeq(Words(price), LAMBDA w : StartsWith(w, HTTP))

(* lines 80-86; parts[1] of a one-element list raises IndexError (line 82) *)
MarkerParse(text) ==
    LET parts == Split(Split(text, TITLE)[2], DESC)
    IN  IF Len(parts) < 2
        THEN [raised |-> TRUE, item_name |-> <<>>, description |-> <<>>,
              price_suggestion |-> <<>>, links |-> <<>>]
        ELSE LET desc_parts == Split(parts[2], PRICE)
                 price == IF Len(desc_parts) > 1 THEN Strip(desc_parts[2]) ELSE ErrNoPrice
             IN  [raised |-> FALSE,
                  item_name |-> Strip(parts[1]),
                  description |-> Strip(desc_parts[1]),
                  price_suggestion |-> price,
                  links |-> ExtractLinks(price)]

(* description = combined_output.strip() in place of combined_output *)
FallbackParse_Stripped(text) ==
    [raised |-> FALSE, item_name |-> ItemTitle, description |-> Strip(text),
     price_suggestion |-> ErrIncomplete, links |-> <<>>]

(* lines 88-91 *)
FallbackParse(text) ==
    [raised |-> FALSE, item_name |-> ItemTitle, description |-> text,
     price_suggestion |-> ErrIncomplete, links |-> <<>>]

(* lines 79-91, on the text line 78 produced *)
ParseListing(text) ==
    IF HasAllMarkers(text) THEN MarkerParse(text) ELSE FallbackParse(text)

(* price_suggestion.startswith("Error") in place of "Error" in price_suggestion *)
OffersRetry_Prefix(price) == StartsWith(price, ERROR)

(* line 108 *)
OffersRetry(price) == Contains(price, ERROR)

----------------------------------------------------------------------------
(* Values of a script run's locals before any handler has run *)

NoCall == [made |-> FALSE, prompt |-> <<>>, images |-> <<>>, use_search |-> FALSE]
NoRet == [status |-> "none", value |-> <<>>]
NoPayload ==
    [made |-> FALSE, model |-> "", messages |-> <<>>, temperature |-> "",
     max_tokens |-> 0, search_parameters |-> "absent"]

Days == <<"Monday", "Tuesday", "Wednesday", "Thursday", "Friday", "Saturday", "Sunday">>
DaySet == {Days[i] : i \in 1..Len(Days)}
NoSlots == [morning |-> FALSE, afternoon |-> FALSE, evening |-> FALSE, custom |-> <<>>]

(* every widget at its default: nothing uploaded, nothing ticked, nothing typed *)
FreshWidgets ==
    /\ uploaded_files = <<>>
    /\ is_bundle = FALSE
    /\ buyer_message = <<>>
    /\ avail = [d \in DaySet |-> NoSlots]

FreshListing ==
    /\ combined_output = <<>>
    /\ item_name = <<>>
    /\ description = <<>>
    /\ price_suggestion = <<>>
    /\ links = <<>>
    /\ retry_button = FALSE

NoListing ==
    /\ combined_output' = <<>>
    /\ item_name' = <<>>
    /\ description' = <<>>
    /\ price_suggestion' = <<>>
    /\ links' = <<>>
    /\ retry_button' = FALSE

----------------------------------------------------------------------------
(* Lines 78-110: parse of the answer and display of the listing.  An       *)
(* IndexError of the parse ends the script run before anything is shown.   *)

ShowListing(raw) ==
    LET text == Normalize(raw)
        p == ParseListing(text)
    IN  IF p.raised
        THEN /\ view' = "exception"
             /\ NoListing
        ELSE /\ view' = "listing"
             /\ combined_output' = text
             /\ item_name' = p.item_name
             /\ description' = p.description
             /\ price_suggestion' = p.price_suggestion
             /\ links' = p.links
             /\ retry_button' = OffersRetry(p.price_suggestion)

----------------------------------------------------------------------------
(* Answers of the remote model *)

Alphabet == {TITLE, DESC, PRICE, SP, CH, HTTP, MINUS}
FieldAlphabet == {SP, CH, HTTP, MINUS}

(* the skeleton the prompt asks for, line 74:                              *)
(* "Title: [..]\nDescription: [..]\nPrice: [..]"                           *)
Format(f) ==
    <<TITLE, SP>> \o f[1] \o <<NL, DESC, SP>> \o f[2] \o <<NL, PRICE, SP>> \o f[3]

(* lengths of X, Y and Z in a skeleton answer *)
FieldLengths ==
    {t \in (0..MaxFieldTotal) \X (0..MaxFieldTotal) \X (0..MaxFieldTotal) :
        t[1] + t[2] + t[3] <= MaxFieldTotal}

----------------------------------------------------------------------------
(* Specification of the parse: call_grok has returned an answer (line 75), *)
(* the rest of the "Generate Listing" handler runs on it.                  *)

InitParse ==
    /\ FreshWidgets
    /\ FreshListing
    /\ storage = <<>>
    /\ call = NoCall
    /\ payload = NoPayload
    /\ sent = 0
    /\ availability_str = <<>>
    /\ suggested_responses = <<>>
    /\ view = "none"
    /\ event = [kind |-> "answer"]
    /\ write_log = <<>>
    /\ runs = 0
    /\ \/ \E k \in 0..MaxLen : \E t \in [1..k -> Alphabet] :
            ret = [status |-> "returned", value |-> t] /\ given = <<>>
       \/ \E n \in FieldLengths :
            \E x \in [1..n[1] -> FieldAlphabet], y \in [1..n[2] -> FieldAlphabet],
               z \in [1..n[3] -> FieldAlphabet] :
                /\ ret = [status |-> "returned", value |-> Format(<<x, y, z>>)]
                /\ given = <<x, y, z>>

(* lines 78-110 on the returned answer *)
ParseAnswer ==
    /\ view = "none"
    /\ ret.status = "returned"
    /\ ShowListing(ret.value)
    /\ UNCHANGED <<widgetVars, storage, clientVars, responseVars, event, write_log,
                   runs, given>>

(* the model is asked again and answers with the displayed fields in the   *)
(* requested skeleton                                                      *)
EchoAnswer ==
    /\ view = "listing"
    /\ HasAllMarkers(combined_output)
    /\ given # <<item_name, description, price_suggestion>>
    /\ given' = <<item_name, description, price_suggestion>>
    /\ ret' = [status |-> "returned", value |-> Format(given')]
    /\ view' = "none"
    /\ NoListing
    /\ event' = [kind |-> "echo"]
    /\ UNCHANGED <<widgetVars, storage, call, payload, sent, responseVars,
                   write_log, runs>>

NextParse == ParseAnswer \/ EchoAnswer

SpecParse == InitParse /\ [][NextParse]_vars

----------------------------------------------------------------------------
(* Availability collection, lines 117-141 *)

(* sep.join(parts) *)
RECURSIVE Join(_, _)
Join(parts, sep) ==
    IF parts = <<>>
    THEN <<>>
    ELSE IF Len(parts) = 1
         THEN parts[1]
         ELSE parts[1] \o sep \o Join(Tail(parts), sep)

(* the custom label appended without the test of line 136 *)
Slots_CustomAlways(w) ==
    (IF w.morning THEN <<<<"Morning">>>> ELSE <<>>)
        \o (IF w.afternoon THEN <<<<"Afternoon">>>> ELSE <<>>)
        \o (IF w.evening THEN <<<<"Evening">>>> ELSE <<>>)
        \o <<<<"Custom: ">> \o w.custom>>

(* lines 132-136: the labels of one day, in the order they are appended *)
Slots(w) ==
    (IF w.morning THEN <<<<"Morning">>>> ELSE <<>>)
        \o (IF w.afternoon THEN <<<<"Afternoon">>>> ELSE <<>>)
        \o (IF w.evening THEN <<<<"Evening">>>> ELSE <<>>)
        \o (IF w.custom # <<>> THEN <<<<"Custom: ">> \o w.custom>> ELSE <<>>)

(* lines 118-138: the dict's items, in insertion order, from day i on *)
RECURSIVE AvailabilityItems(_, _)
AvailabilityItems(grid, i) ==
    IF i > Len(Days)
    THEN <<>>
    ELSE LET slots == Slots(grid[Days[i]])
         IN  (IF slots # <<>>
              THEN <<[day |-> Days[i], slots |-> Join(slots, <<", ">>)]>>
              ELSE <<>>)
                 \o AvailabilityItems(grid, i + 1)

AvailabilityDict(grid) == AvailabilityItems(grid, 1)

(* line 141 *)
AvailabilityStr(grid) ==
    LET items == AvailabilityDict(grid)
        joined == Join([n \in 1..Len(items) |-> <<items[n].day, ": ">> \o items[n].slots],
                       <<"; ">>)
    IN  IF joined # <<>> THEN joined ELSE <<"No specific availability set">>

(* what the user can have typed into a day's custom field *)
CustomTexts == {<<>>, <<"4pm">>}

SlotChoices ==
    [morning : BOOLEAN, afternoon : BOOLEAN, evening : BOOLEAN, custom : CustomTexts]

----------------------------------------------------------------------------
(* Specification of the availability collection: the widgets hold some     *)
(* selection, the script run collects it.                                  *)

InitAvail ==
    /\ uploaded_files = <<>>
    /\ is_bundle = FALSE
    /\ buyer_message = <<>>
    /\ \E active \in SUBSET DaySet :
         /\ Cardinality(active) <= MaxActiveDays
         /\ \E chosen \in [active -> SlotChoices \ {NoSlots}] :
              avail = [d \in DaySet |-> IF d \in active THEN chosen[d] ELSE NoSlots]
    /\ FreshListing
    /\ storage = <<>>
    /\ call = NoCall
    /\ ret = NoRet
    /\ payload = NoPayload
    /\ sent = 0
    /\ availability_str = <<>>
    /\ suggested_responses = <<>>
    /\ view = "none"
    /\ event = [kind |-> "start"]
    /\ write_log = <<>>
    /\ runs = 0
    /\ given = <<>>

(* lines 117-141 *)
CollectAvailability ==
    /\ event.kind = "start"
    /\ availability_str' = AvailabilityStr(avail)
    /\ event' = [kind |-> "collect"]
    /\ UNCHANGED <<widgetVars, storage, clientVars, listingVars, suggested_responses,
                   view, write_log, runs, given>>

NextAvail == CollectAvailability

SpecAvail == InitAvail /\ [][NextAvail]_vars

----------------------------------------------------------------------------
(* Image encoding, lines 12-14 *)

B64Chars ==
    <<"A", "B", "C", "D", "E", "F", "G", "H", "I", "J", "K", "L", "M", "N", "O", "P",
      "Q", "R", "S", "T", "U", "V", "W", "X", "Y", "Z", "a", "b", "c", "d", "e", "f",
      "g", "h", "i", "j", "k", "l", "m", "n", "o", "p", "q", "r", "s", "t", "u", "v",
      "w", "x", "y", "z", "0", "1", "2", "3", "4", "5", "6", "7", "8", "9", "+", "/">>

(* base64.b64encode(...).decode('utf-8'): three bytes give four characters, *)
(* a last group of one or two bytes is padded with "="                      *)
RECURSIVE B64Encode(_)
B64Encode(bytes) ==
    IF bytes = <<>>
    THEN <<>>
    ELSE LET n == IF Len(bytes) >= 3 THEN 3 ELSE Len(bytes)
             b1 == bytes[1]
             b2 == IF n >= 2 THEN bytes[2] ELSE 0
             b3 == IF n >= 3 THEN bytes[3] ELSE 0
             v == b1 * 65536 + b2 * 256 + b3
             c1 == B64Chars[(v \div 262144) + 1]
             c2 == B64Chars[((v \div 4096) % 64) + 1]
             c3 == IF n >= 2 THEN B64Chars[((v \div 64) % 64) + 1] ELSE "="
             c4 == IF n >= 3 THEN B64Chars[(v % 64) + 1] ELSE "="
         IN  <<c1, c2, c3, c4>> \o B64Encode(SubSeq(bytes, n + 1, Len(bytes)))

(* encode_image: open(image_path, "rb") raises when there is no such file *)
EncodeImage(image_path, store) ==
    IF image_path \in DOMAIN store
    THEN [raised |-> FALSE, value |-> B64Encode(store[image_path])]
    ELSE [raised |-> TRUE, value |-> <<>>]

----------------------------------------------------------------------------
(* call_grok, lines 16-49 *)

ModelName == "grok-4-1-fast-non-reasoning"
Temperature == "0.7"
MaxTokens == 300
DataUriPrefix == "data:image/jpeg;base64,"

(* str(e) of the exception the try block caught *)
ErrorDetail(kind) ==
    CASE kind = "http_error" ->
             <<"401", SP, "Client", SP, ERROR, ":", SP, "Unauthorized", SP, "for", SP,
               "url", ":", SP, "https://api.x.ai/v1/chat/completions">>
      [] kind = "network_error" -> <<"Connection", SP, "refused">>
      [] kind = "malformed_body" -> <<"'choices'">>

(* line 49 *)
ErrorString(kind) ==
    <<ERROR, ":", SP>> \o ErrorDetail(kind)
        \o <<SP, HYPHEN, SP, "Retry", SP, "or", SP, "check", SP, "connection/key.">>

(* lines 23-26 *)
ImagePart(base64_image) ==
    [type |-> "image_url", text |-> <<>>, url |-> <<DataUriPrefix>> \o base64_image]

TextPart(prompt) == [type |-> "text", text |-> prompt, url |-> <<>>]

(* lines 17-27: the content of the one message *)
MessageContent(prompt, encoded) ==
    IF encoded # <<>>
    THEN [kind |-> "parts", text |-> <<>>,
          parts |-> <<TextPart(prompt)>> \o [i \in 1..Len(encoded) |-> ImagePart(encoded[i])]]
    ELSE [kind |-> "text", text |-> prompt, parts |-> <<>>]

(* lines 29-37 *)
Payload(prompt, encoded, use_search) ==
    [made |-> TRUE,
     model |-> ModelName,
     messages |-> <<[role |-> "user", content |-> MessageContent(prompt, encoded)]>>,
     temperature |-> Temperature,
     max_tokens |-> MaxTokens,
     search_parameters |-> IF use_search THEN "on" ELSE "absent"]

(* What the POST does, lines 45-47: a 2xx answer whose first choice holds  *)
(* the text `content`, or one of the failures: a non-2xx status, a network *)
(* error, a body without the expected keys.                                *)
FailureKinds == {"http_error", "network_error", "malformed_body"}

(* lines 16-49.  encode_image runs before the try block: its exception     *)
(* leaves call_grok, and no request is posted.                             *)
CallGrok(prompt, images, use_search, store, outcome) ==
    LET encoded == [i \in 1..Len(images) |-> EncodeImage(images[i], store)]
    IN  IF \E i \in 1..Len(images) : encoded[i].raised
        THEN [status |-> "raised", value |-> <<>>, payload |-> NoPayload, posts |-> 0]
        ELSE LET body == Payload(prompt, [i \in 1..Len(images) |-> encoded[i].value],
                                 use_search)
             IN  CASE outcome.kind = "ok" ->
                          [status |-> "returned", value |-> outcome.content,
                           payload |-> body, posts |-> 1]
                   [] OTHER ->
                          [status |-> "returned", value |-> ErrorString(outcome.kind),
                           payload |-> body, posts |-> 1]

----------------------------------------------------------------------------
(* Prompts, lines 73-74 and 146 *)

Category == "Baby/Toddler"     \* first option of the selectbox, line 58
Condition == "New"             \* first option of the selectbox, line 59

(* lines 73-74, the text inputs left empty *)
CombinedPrompt(bundle) ==
    <<"Analyze these photos of a used ", Category, " item",
      IF bundle THEN " (bundle/lot of items)" ELSE "",
      " in ", Condition, " condition. Details: ", "", ". Output in this exact format: ",
      TITLE, " [short title]", NL, DESC, " [appealing description]", NL, PRICE,
      " [clean price range e.g. $X-Y with explanation, include 2-3 direct links to sources like eBay/Craigslist listings]. First, generate the title and description highlighting features and suitability. Then, research average sold prices for similar new/used items in ",
      "", " and suggest a competitive range.">>

(* line 146, the preferred locations left empty *)
ResponsePrompt(message, availability) ==
    <<"Buyer: '">> \o message \o <<"'. Availability: '">> \o availability
        \o <<"'. Locations: '", "",
             "'. Suggest 2-3 polite responses, suggesting times/locations if relevant. Always include safety tips: Meet in public, cash only, keep comms in app.">>

----------------------------------------------------------------------------
(* What the environment supplies *)

FileNames == {"a.jpg", "b.png"}
FileData == {<<255, 216>>, <<137, 80, 78, 71>>}
Messages == {<<>>, <<"Is this still available?">>}

(* answers of the remote model used where the whole application runs *)
Answers ==
    {<<TITLE, SP, CH, NL, DESC, SP, CH, NL, PRICE, SP, CH, SP, HTTP, CH>>,
     <<TITLE, SP, CH, NL, DESC, SP, CH, NL, PRICE, SP, CH, SP, ERROR>>,
     <<DESC, SP, CH, SP, TITLE, SP, CH, SP, PRICE, SP, CH>>,
     <<CH, SP, CH>>}

Outcomes ==
    {[kind |-> "ok", content |-> a] : a \in Answers}
        \cup {[kind |-> k, content |-> <<>>] : k \in FailureKinds}

----------------------------------------------------------------------------
(* Specification of call_grok: called with some prompt, image paths and    *)
(* search flag, over some working directory.                               *)

InitClient ==
    /\ FreshWidgets
    /\ FreshListing
    /\ \E present \in SUBSET FileNames : storage \in [present -> FileData]
    /\ \E n \in 0..MaxFiles : \E images \in [1..n -> FileNames] :
         \E search \in BOOLEAN :
         \E prompt \in {CombinedPrompt(FALSE), ResponsePrompt(<<"Is this still available?">>, <<>>)} :
            call = [made |-> FALSE, prompt |-> prompt, images |-> images,
                    use_search |-> search]
    /\ ret = NoRet
    /\ payload = NoPayload
    /\ sent = 0
    /\ availability_str = <<>>
    /\ suggested_responses = <<>>
    /\ view = "none"
    /\ event = [kind |-> "start"]
    /\ write_log = <<>>
    /\ runs = 0
    /\ given = <<>>

(* one invocation of call_grok, lines 16-49 *)
Invoke ==
    /\ ~call.made
    /\ \E outcome \in Outcomes :
         LET r == CallGrok(call.prompt, call.images, call.use_search, storage, outcome)
         IN  /\ ret' = [status |-> r.status, value |-> r.value]
             /\ payload' = r.payload
             /\ sent' = sent + r.posts
             /\ event' = [kind |-> "call", outcome |-> outcome]
    /\ call' = [call EXCEPT !.made = TRUE]
    /\ UNCHANGED <<widgetVars, storage, listingVars, responseVars, view, write_log,
                   runs, given>>

NextClient == Invoke

SpecClient == InitClient /\ [][NextClient]_vars

----------------------------------------------------------------------------
(* Image intake, lines 66-70 *)

(* the working directory after name was written with data *)
Put(store, name, data) ==
    [n \in DOMAIN store \cup {name} |-> IF n = name THEN data ELSE store[n]]

NoFail == [at |-> 0, written |-> 0]

(* Where a write to local storage can fail: at file k, either in open()    *)
(* (written = -1, nothing touched) or in f.write()/close after open(..,    *)
(* "wb") has truncated the file and `written` bytes have reached it.       *)
FailChoices(files) ==
    UNION {{[at |-> k, written |-> n] : n \in (-1)..(Len(files[k].data) - 1)} :
           k \in 1..Len(files)}

(* the loop with the failure of a write caught and the file skipped *)
RECURSIVE Intake_SkipFailed(_, _, _, _)
Intake_SkipFailed(files, i, acc, fail) ==
    IF i > Len(files)
    THEN acc
    ELSE LET f == files[i]
         IN  IF fail.at = i
             THEN Intake_SkipFailed(files, i + 1,
                      [acc EXCEPT !.log = Append(@, [name |-> f.name, status |-> "open_failed"])],
                      fail)
             ELSE Intake_SkipFailed(files, i + 1,
                      [store |-> Put(acc.store, f.name, f.data),
                       log |-> Append(acc.log, [name |-> f.name, status |-> "written"]),
                       image_paths |-> Append(acc.image_paths, f.name),
                       ok |-> TRUE],
                      fail)

(* lines 67-70 from file i on; an exception ends the loop and the handler  *)
RECURSIVE Intake(_, _, _, _)
Intake(files, i, acc, fail) ==
    IF i > Len(files)
    THEN acc
    ELSE LET f == files[i]
         IN  IF fail.at = i
             THEN IF fail.written < 0
                  THEN [acc EXCEPT !.ok = FALSE,
                                   !.log = Append(@, [name |-> f.name, status |-> "open_failed"])]
                  ELSE [acc EXCEPT !.ok = FALSE,
                                   !.store = Put(@, f.name, SubSeq(f.data, 1, fail.written)),
                                   !.log = Append(@, [name |-> f.name, status |-> "write_failed"])]
             ELSE Intake(files, i + 1,
                         [store |-> Put(acc.store, f.name, f.data),
                          log |-> Append(acc.log, [name |-> f.name, status |-> "written"]),
                          image_paths |-> Append(acc.image_paths, f.name),
                          ok |-> TRUE],
                         fail)

----------------------------------------------------------------------------
(* The application: every user event is one run of the script *)

(* a run in which no handler runs: nothing of tab1 is rendered, tab2       *)
(* collects the availability                                               *)
IdleRun(grid) ==
    /\ call' = NoCall
    /\ ret' = NoRet
    /\ payload' = NoPayload
    /\ sent' = sent
    /\ NoListing
    /\ availability_str' = AvailabilityStr(grid)
    /\ suggested_responses' = <<>>
    /\ view' = "none"
    /\ write_log' = <<>>
    /\ storage' = storage

(* a run ended by an uncaught exception in tab1: tab2 is never reached *)
AbortedRun ==
    /\ NoListing
    /\ availability_str' = <<>>
    /\ suggested_responses' = <<>>
    /\ view' = "exception"

Init ==
    /\ FreshWidgets
    /\ FreshListing
    /\ storage = <<>>
    /\ call = NoCall
    /\ ret = NoRet
    /\ payload = NoPayload
    /\ sent = 0
    /\ availability_str = AvailabilityStr([d \in DaySet |-> NoSlots])
    /\ suggested_responses = <<>>
    /\ view = "none"
    /\ event = [kind |-> "start"]
    /\ write_log = <<>>
    /\ runs = 0
    /\ given = <<>>

Step(kind) ==
    /\ runs < MaxRuns
    /\ runs' = runs + 1
    /\ event' = [kind |-> kind]
    /\ given' = given

(* line 63: one more file is uploaded *)
AddFile(name, data) ==
    /\ Step("upload")
    /\ Len(uploaded_files) < MaxFiles
    /\ uploaded_files' = Append(uploaded_files, [name |-> name, data |-> data])
    /\ UNCHANGED <<is_bundle, buyer_message, avail>>
    /\ IdleRun(avail)

(* line 62 *)
ToggleBundle ==
    /\ Step("bundle")
    /\ is_bundle' = ~is_bundle
    /\ UNCHANGED <<uploaded_files, buyer_message, avail>>
    /\ IdleRun(avail)

(* line 113 *)
EditMessage(m) ==
    /\ Step("message")
    /\ m # buyer_message
    /\ buyer_message' = m
    /\ UNCHANGED <<uploaded_files, is_bundle, avail>>
    /\ IdleRun(avail)

(* lines 123-129: one widget of the availability grid changes *)
SetSlots(d, w) ==
    /\ Step("availability")
    /\ \/ w = [avail[d] EXCEPT !.morning = ~@]
       \/ w = [avail[d] EXCEPT !.afternoon = ~@]
       \/ w = [avail[d] EXCEPT !.evening = ~@]
       \/ w.custom # avail[d].custom /\ w = [avail[d] EXCEPT !.custom = w.custom]
    /\ avail' = [avail EXCEPT ![d] = w]
    /\ UNCHANGED <<uploaded_files, is_bundle, buyer_message>>
    /\ IdleRun(avail')

(* lines 65-110 (and the rest of the script): "Generate Listing" pressed *)
GenerateListing ==
    /\ Step("press_listing")
    /\ UNCHANGED widgetVars
    /\ IF uploaded_files = <<>>
       THEN IdleRun(avail)
       ELSE \E fail \in FailChoices(uploaded_files) \cup {NoFail} :
              LET in == Intake(uploaded_files, 1,
                               [store |-> storage, log |-> <<>>, image_paths |-> <<>>,
                                ok |-> TRUE],
                               fail)
              IN  /\ storage' = in.store
                  /\ write_log' = in.log
                  /\ IF ~in.ok
                     THEN /\ call' = NoCall
                          /\ ret' = NoRet
                          /\ payload' = NoPayload
                          /\ sent' = sent
                          /\ AbortedRun
                     ELSE \E outcome \in Outcomes :
                            LET prompt == CombinedPrompt(is_bundle)
                                r == CallGrok(prompt, in.image_paths, TRUE, in.store, outcome)
                            IN  /\ call' = [made |-> TRUE, prompt |-> prompt,
                                            images |-> in.image_paths, use_search |-> TRUE]
                                /\ ret' = [status |-> r.status, value |-> r.value]
                                /\ payload' = r.payload
                                /\ sent' = sent + r.posts
                                /\ IF r.status = "raised"
                                   THEN AbortedRun
                                   ELSE /\ ShowListing(r.value)
                                        /\ suggested_responses' = <<>>
                                        /\ availability_str' =
                                             IF ParseListing(Normalize(r.value)).raised
                                             THEN <<>>
                                             ELSE AvailabilityStr(avail)

(* lines 145-150: "Generate Response" pressed *)
GenerateResponse ==
    /\ Step("press_response")
    /\ UNCHANGED widgetVars
    /\ IF buyer_message = <<>>
       THEN IdleRun(avail)
       ELSE \E outcome \in Outcomes :
              LET prompt == ResponsePrompt(buyer_message, AvailabilityStr(avail))
                  r == CallGrok(prompt, <<>>, FALSE, storage, outcome)
              IN  /\ call' = [made |-> TRUE, prompt |-> prompt, images |-> <<>>,
                              use_search |-> FALSE]
                  /\ ret' = [status |-> r.status, value |-> r.value]
                  /\ payload' = r.payload
                  /\ sent' = sent + r.posts
                  /\ NoListing
                  /\ availability_str' = AvailabilityStr(avail)
                  /\ suggested_responses' = r.value
                  /\ view' = "response"
                  /\ write_log' = <<>>
                  /\ storage' = storage

(* the retry run issuing the request again *)
RetryGeneration_Resend ==
    /\ retry_button
    /\ Step("press_retry")
    /\ UNCHANGED widgetVars
    /\ call' = NoCall
    /\ ret' = NoRet
    /\ payload' = NoPayload
    /\ sent' = sent + 1
    /\ NoListing
    /\ availability_str' = AvailabilityStr(avail)
    /\ suggested_responses' = <<>>
    /\ view' = "none"
    /\ write_log' = <<>>
    /\ storage' = storage

(* lines 108-110: "Retry Generation" pressed.  In the run it triggers,     *)
(* st.button("Generate Listing") is False, so the block that holds the     *)
(* retry button and st.rerun() is not entered.                             *)
RetryGeneration ==
    /\ retry_button
    /\ Step("press_retry")
    /\ UNCHANGED widgetVars
    /\ IdleRun(avail)

Next ==
    \/ \E name \in FileNames, data \in FileData : AddFile(name, data)
    \/ ToggleBundle
    \/ \E m \in Messages : EditMessage(m)
    \/ \E d \in DaySet, w \in SlotChoices : SetSlots(d, w)
    \/ GenerateListing
    \/ GenerateResponse
    \/ RetryGeneration

Spec == Init /\ [][Next]_vars

----------------------------------------------------------------------------
(* Vocabulary of the properties, stated on positions of the text           *)

(* the text with every U+2212 read as a hyphen *)
Hyphenated(s) == [i \in 1..Len(s) |-> IF s[i] = MINUS THEN HYPHEN ELSE s[i]]

Occurrences(s, tok) == {i \in 1..Len(s) : s[i] = tok}

(* t is s without its leading and trailing white space *)
IsTrimOf(t, s) ==
    \E a \in 0..Len(s) : \E b \in 0..(Len(s) - a) :
        /\ t = SubSeq(s, a + 1, Len(s) - b)
        /\ \A m \in 1..a : s[m] \in {SP, NL}
        /\ \A m \in (Len(s) - b + 1)..Len(s) : s[m] \in {SP, NL}
        /\ t = <<>> \/ (t[1] \notin {SP, NL} /\ t[Len(t)] \notin {SP, NL})

(* positions of p where a white-space-delimited token starting with http begins *)
LinkStarts(p) ==
    {i \in 1..Len(p) : p[i] = HTTP /\ (i = 1 \/ p[i - 1] \in {SP, NL})}

(* last position of the white-space-delimited token that begins at i *)
TokenEnd(p, i) ==
    CHOOSE e \in i..Len(p) :
        /\ \A m \in i..e : p[m] \notin {SP, NL}
        /\ e = Len(p) \/ p[e + 1] \in {SP, NL}

(* ls holds the http tokens of p, in order, each occurrence once *)
IsLinksOf(ls, p) ==
    /\ Len(ls) = Cardinality(LinkStarts(p))
    /\ \A n \in 1..Len(ls) :
         LET i == CHOOSE c \in LinkStarts(p) :
                      Cardinality({m \in LinkStarts(p) : m <= c}) = n
         IN  ls[n] = SubSeq(p, i, TokenEnd(p, i))

(* first "Title:", the first "Description:" after it, the first "Price:"   *)
(* after that; 0 where there is none                                       *)
FirstAfter(s, tok, from) ==
    IF \E i \in (from + 1)..Len(s) : s[i] = tok
    THEN CHOOSE i \in (from + 1)..Len(s) :
             s[i] = tok /\ \A j \in (from + 1)..(i - 1) : s[j] # tok
    ELSE 0

TitleAt(s) == FirstAfter(s, TITLE, 0)
DescAt(s) == IF TitleAt(s) = 0 THEN 0 ELSE FirstAfter(s, DESC, TitleAt(s))
PriceAt(s) == IF DescAt(s) = 0 THEN 0 ELSE FirstAfter(s, PRICE, DescAt(s))

(* the three markers in order, with non-empty text between them *)
MarkersInOrder(s) ==
    /\ PriceAt(s) # 0
    /\ DescAt(s) > TitleAt(s) + 1
    /\ PriceAt(s) > DescAt(s) + 1

(* after the only "Title:" there is exactly one "Description:" and then    *)
(* exactly one "Price:"                                                    *)
MarkersOnce(s) ==
    /\ Cardinality(Occurrences(s, TITLE)) = 1
    /\ Cardinality({i \in Occurrences(s, DESC) : i > TitleAt(s)}) = 1
    /\ Cardinality({i \in Occurrences(s, PRICE) : i > TitleAt(s)}) = 1
    /\ PriceAt(s) # 0

(* the listing shows the segments of text t around the three markers *)
ShowsSegments(t) ==
    /\ view = "listing"
    /\ IsTrimOf(item_name, SubSeq(t, TitleAt(t) + 1, DescAt(t) - 1))
    /\ IsTrimOf(description, SubSeq(t, DescAt(t) + 1, PriceAt(t) - 1))
    /\ IsTrimOf(price_suggestion, SubSeq(t, PriceAt(t) + 1, Len(t)))
    /\ IsLinksOf(links, price_suggestion)

(* the handler has finished with the answer, by display or by exception *)
Answered == ret.status = "returned" /\ view # "none" /\ event.kind \in {"answer", "echo"}

(* C1, as claimed: for every answer that contains "Title:", "Description:" *)
(* and "Price:" in that order with non-empty text between them, the        *)
(* listing shows the trimmed segments between the markers and the http     *)
(* tokens of the price text as links, in order, duplicates kept.           *)
C1_AsClaimed == (Answered /\ MarkersInOrder(ret.value)) => ShowsSegments(ret.value)

(* C1, amended: the same for every answer in which, after its only         *)
(* "Title:", there is exactly one "Description:" and then exactly one      *)
(* "Price:", the segments being those of the answer with U+2212 replaced   *)
(* by a hyphen.                                                            *)
C1_MarkerPath ==
    (Answered /\ MarkersInOrder(ret.value) /\ MarkersOnce(ret.value))
        => ShowsSegments(Hyphenated(ret.value))

(* C1, reached: a listing parsed on the marker path with a non-empty      *)
(* title and description and two links.                                    *)
C1_Witness ==
    /\ Answered
    /\ MarkersInOrder(ret.value)
    /\ MarkersOnce(ret.value)
    /\ view = "listing"
    /\ item_name # <<>>
    /\ description # <<>>
    /\ Len(links) = 2

LacksMarker(s) == \E m \in {TITLE, DESC, PRICE} : Occurrences(s, m) = {}

ShowsFallback(t) ==
    /\ view = "listing"
    /\ item_name = <<"Item">>
    /\ description = t
    /\ price_suggestion = ErrIncomplete
    /\ links = <<>>

(* C2, as claimed: for every answer that lacks one of the markers the      *)
(* listing shows title "Item", the full answer unchanged as description,   *)
(* the incomplete-response error string as price and no links.             *)
C2_AsClaimed == (Answered /\ LacksMarker(ret.value)) => ShowsFallback(ret.value)

(* C2, amended: the description is the answer with every U+2212 replaced   *)
(* by a hyphen, otherwise unchanged.                                       *)
C2_Fallback == (Answered /\ LacksMarker(ret.value)) => ShowsFallback(Hyphenated(ret.value))

(* C2, reached: the fallback listing of an answer that holds "Title:" and *)
(* a U+2212 but lacks another marker.                                      *)
C2_Witness ==
    /\ Answered
    /\ LacksMarker(ret.value)
    /\ view = "listing"
    /\ Len(ret.value) >= 3
    /\ Occurrences(ret.value, MINUS) # {}
    /\ Occurrences(ret.value, TITLE) # {}

(* C3: for every answer, whatever markers it holds in whatever order or    *)
(* multiplicity, the parse completes and the listing is displayed, either  *)
(* with the fields found around the three markers or as the fallback.      *)
C3_ParseTotal ==
    Answered =>
        /\ view = "listing"
        /\ \/ ~LacksMarker(ret.value)
           \/ ShowsFallback(Hyphenated(ret.value))

MarkerFree(s) == \A m \in {TITLE, DESC, PRICE} : Occurrences(s, m) = {}

IsTrimmed(s) == s = <<>> \/ (s[1] \notin {SP, NL} /\ s[Len(s)] \notin {SP, NL})

ShowsGiven ==
    /\ view = "listing"
    /\ item_name = given[1]
    /\ description = given[2]
    /\ price_suggestion = given[3]

(* C7, as claimed: for all X, Y, Z without marker substrings, the answer   *)
(* "Title: X\nDescription: Y\nPrice: Z" parses to title X, description Y   *)
(* and price Z.                                                            *)
C7_AsClaimed ==
    (Answered /\ given # <<>> /\ \A n \in 1..3 : MarkerFree(given[n])) => ShowsGiven

(* C7, amended: the same for X, Y, Z that also hold no U+2212 and have no  *)
(* leading or trailing white space; and re-parsing the text rebuilt from   *)
(* the fields of a marker-path parse returns those fields.                 *)
C7_RoundTrip ==
    (/\ Answered
     /\ given # <<>>
     /\ \/ event.kind = "echo"
        \/ \A n \in 1..3 : /\ MarkerFree(given[n])
                           /\ IsTrimmed(given[n])
                           /\ Occurrences(given[n], MINUS) = {})
        => ShowsGiven

(* C7, reached: the fields of a marker-path parse, the title holding      *)
(* "Price:", rebuilt into a text and parsed again.                         *)
C7_Witness ==
    /\ Answered
    /\ event.kind = "echo"
    /\ view = "listing"
    /\ \A n \in 1..3 : given[n] # <<>>
    /\ Occurrences(given[1], PRICE) # {}

(* a day has at least one selection *)
Selected(d) ==
    avail[d].morning \/ avail[d].afternoon \/ avail[d].evening \/ avail[d].custom # <<>>

(* the labels of day d, in the fixed order *)
Labels(d) ==
    LET all == <<[on |-> avail[d].morning, text |-> <<"Morning">>],
                 [on |-> avail[d].afternoon, text |-> <<"Afternoon">>],
                 [on |-> avail[d].evening, text |-> <<"Evening">>],
                 [on |-> avail[d].custom # <<>>, text |-> <<"Custom: ">> \o avail[d].custom]>>
        on == {n \in 1..4 : all[n].on}
        nth(k) == CHOOSE n \in on : Cardinality({m \in on : m <= n}) = k
    IN  [k \in 1..Cardinality(on) |-> all[nth(k)].text]

(* "<Day>: <labels>", the labels joined by ", " *)
RECURSIVE Entry(_, _)
Entry(d, k) ==
    IF k = 0 THEN <<d, ": ">>
    ELSE Entry(d, k - 1) \o (IF k > 1 THEN <<", ">> ELSE <<>>) \o Labels(d)[k]

(* the entries of the selected days among the first i days, joined by "; " *)
RECURSIVE Summary(_)
Summary(i) ==
    IF i = 0 THEN <<>>
    ELSE IF ~Selected(Days[i]) THEN Summary(i - 1)
    ELSE LET before == Summary(i - 1)
         IN  (IF before = <<>> THEN <<>> ELSE before \o <<"; ">>)
                 \o Entry(Days[i], Len(Labels(Days[i])))

(* the day names in the summary, in the order they appear *)
DaysListed == SelectSeq(availability_str, LAMBDA t : t \in DaySet)

(* C6: the summary lists exactly the days with a selection, in             *)
(* Monday-to-Sunday order, each once, as "<Day>: <labels>" joined by "; ", *)
(* the labels in the order Morning, Afternoon, Evening, Custom: <text>     *)
(* joined by ", "; with no selection at all it is "No specific             *)
(* availability set".                                                      *)
C6_Summary ==
    (event.kind = "collect") =>
        /\ DaysListed = SelectSeq(Days, Selected)
        /\ IF \E d \in DaySet : Selected(d)
           THEN availability_str = Summary(Len(Days))
           ELSE availability_str = <<"No specific availability set">>

(* C6, reached: Monday with Morning and a custom text, and Sunday.         *)
C6_Witness ==
    /\ event.kind = "collect"
    /\ Len(DaysListed) = 2
    /\ avail["Monday"].morning /\ avail["Monday"].custom = <<"4pm">>
    /\ availability_str[3] = "Morning"
    /\ Selected("Sunday")

(* the string starts with "Error:" *)
IsErrorString(s) == Len(s) >= 2 /\ s[1] = "Error" /\ s[2] = ":"

(* C4: call_grok never raises: whatever the prompt, the image list, the    *)
(* search flag and the outcome of its steps, it returns a string, the      *)
(* first choice's content on success and a string beginning with "Error:"  *)
(* on failure.                                                             *)
C4_NeverRaises ==
    (call.made /\ event.kind = "call") =>
        /\ ret.status = "returned"
        /\ event.outcome.kind = "ok" => ret.value = event.outcome.content
        /\ event.outcome.kind # "ok" => IsErrorString(ret.value)

(* value of a base64 character *)
B64Value(c) == IF c = "=" THEN 0 ELSE (CHOOSE v \in 1..64 : B64Chars[v] = c) - 1

(* the bytes a base64 text stands for *)
RECURSIVE B64Decode(_)
B64Decode(cs) ==
    IF Len(cs) < 4
    THEN <<>>
    ELSE LET v == B64Value(cs[1]) * 262144 + B64Value(cs[2]) * 4096
                    + B64Value(cs[3]) * 64 + B64Value(cs[4])
             pad == (IF cs[3] = "=" THEN 1 ELSE 0) + (IF cs[4] = "=" THEN 1 ELSE 0)
         IN  SubSeq(<<v \div 65536, (v \div 256) % 256, v % 256>>, 1, 3 - pad)
                 \o B64Decode(SubSeq(cs, 5, Len(cs)))

(* C5: the payload holds exactly one message; with no images its content   *)
(* is the plain prompt; with N >= 1 uploads it is 1 + N parts, the text    *)
(* part first and then one image part per upload in upload order, the i-th *)
(* image part decoding to the bytes of the i-th uploaded file (also when   *)
(* two uploads share a file name).                                         *)
C5_MessageConstruction ==
    payload.made =>
        /\ Len(payload.messages) = 1
        /\ LET content == payload.messages[1].content
           IN  IF call.images = <<>>
               THEN content.kind = "text" /\ content.text = call.prompt
               ELSE /\ content.kind = "parts"
                    /\ Len(content.parts) = 1 + Len(uploaded_files)
                    /\ content.parts[1].type = "text"
                    /\ content.parts[1].text = call.prompt
                    /\ \A i \in 1..Len(uploaded_files) :
                         /\ content.parts[i + 1].type = "image_url"
                         /\ Head(content.parts[i + 1].url) = "data:image/jpeg;base64,"
                         /\ B64Decode(Tail(content.parts[i + 1].url)) = uploaded_files[i].data

(* this step is the script run of a press of the button *)
Pressed(kind) == runs' = runs + 1 /\ event'.kind = kind

ListingGuard == uploaded_files # <<>>
ResponseGuard == buyer_message # <<>>

(* every file of the batch was written in the run just made *)
AllWritten ==
    /\ Len(write_log') = Len(uploaded_files)
    /\ \A i \in 1..Len(write_log') : write_log'[i].status = "written"

(* C8, as claimed: a request is sent only by a press of Generate Listing   *)
(* with an uploaded file or of Generate Response with a buyer message,     *)
(* each such press sends exactly one request, a press whose guard fails    *)
(* sends none and writes no file, and nothing is re-sent after an error.   *)
C8_AsClaimed ==
    [][/\ sent' # sent =>
            \/ Pressed("press_listing") /\ ListingGuard
            \/ Pressed("press_response") /\ ResponseGuard
       /\ Pressed("press_listing") /\ ListingGuard => sent' = sent + 1
       /\ Pressed("press_response") /\ ResponseGuard => sent' = sent + 1
       /\ Pressed("press_listing") /\ ~ListingGuard => sent' = sent /\ storage' = storage
       /\ Pressed("press_response") /\ ~ResponseGuard => sent' = sent /\ storage' = storage
       /\ Pressed("press_retry") => sent' = sent]_vars

(* C8, amended: a press of Generate Listing with an uploaded file sends    *)
(* exactly one request when every file of the batch is written and none    *)
(* when a write fails; the rest as claimed.                                *)
C8_OneRequestPerPress ==
    [][/\ sent' # sent =>
            \/ Pressed("press_listing") /\ ListingGuard
            \/ Pressed("press_response") /\ ResponseGuard
       /\ Pressed("press_listing") /\ ListingGuard =>
            sent' = IF AllWritten THEN sent + 1 ELSE sent
       /\ Pressed("press_response") /\ ResponseGuard => sent' = sent + 1
       /\ Pressed("press_listing") /\ ~ListingGuard => sent' = sent /\ storage' = storage
       /\ Pressed("press_response") /\ ~ResponseGuard => sent' = sent /\ storage' = storage
       /\ Pressed("press_retry") => sent' = sent]_vars

(* C8, reached: Retry Generation pressed after the one request of a       *)
(* listing whose price holds "Error"; still one request.                   *)
C8_Witness ==
    /\ event.kind = "press_retry"
    /\ sent = 1
    /\ uploaded_files # <<>>
    /\ ~payload.made

(* C9: whenever the displayed price holds the word "Error" the listing     *)
(* view offers the Retry Generation button; and when call_grok returned    *)
(* its "Error:" string the listing is displayed all the same, with title   *)
(* "Item", that string as description, the incomplete-response error       *)
(* string as price, no links, and the retry button.                        *)
C9_ErrorFlow ==
    /\ (view = "listing" /\ \E i \in 1..Len(price_suggestion) : price_suggestion[i] = "Error")
           => retry_button
    /\ (event.kind = "press_listing" /\ ret.status = "returned" /\ IsErrorString(ret.value))
           => /\ view = "listing"
              /\ item_name = <<"Item">>
              /\ description = ret.value
              /\ price_suggestion = ErrIncomplete
              /\ links = <<>>
              /\ retry_button

(* C9, reached: call_grok returned its "Error:" string and the listing is *)
(* displayed with the retry button.                                        *)
C9_Witness ==
    /\ event.kind = "press_listing"
    /\ IsErrorString(ret.value)
    /\ view = "listing"
    /\ description = ret.value
    /\ retry_button

(* the run of the listing handler stopped at a write that failed *)
WriteFailed == write_log # <<>> /\ write_log[Len(write_log)].status # "written"

(* C10, the state a press of Generate Listing with uploads leaves: the     *)
(* files were written in upload order; a request exists only after all of  *)
(* them; after a failed write the run is aborted with no request and       *)
(* nothing displayed, and the files written before it are still there.     *)
AfterIntake ==
    LET k == Len(write_log)
    IN  /\ k \in 1..Len(uploaded_files)
        /\ \A i \in 1..k : write_log[i].name = uploaded_files[i].name
        /\ \A i \in 1..(k - 1) : write_log[i].status = "written"
        /\ (payload.made \/ call.made \/ view = "listing")
               => k = Len(uploaded_files) /\ ~WriteFailed
        /\ WriteFailed =>
               /\ view = "exception"
               /\ ~payload.made /\ ~call.made /\ ret.status = "none"
               /\ item_name = <<>> /\ description = <<>> /\ price_suggestion = <<>>
               /\ links = <<>> /\ ~retry_button /\ suggested_responses = <<>>
               /\ \A i \in 1..(k - 1) :
                    /\ uploaded_files[i].name \in DOMAIN storage
                    /\ (\A j \in (i + 1)..k : uploaded_files[j].name # uploaded_files[i].name)
                           => storage[uploaded_files[i].name] = uploaded_files[i].data

(* C10: in the listing action every uploaded file is written, in upload    *)
(* order, before the request is built; if the k-th write fails the action  *)
(* aborts, no request is sent, nothing is displayed, and the k-1 files     *)
(* already written remain on storage.                                      *)
C10_IntakeFailure ==
    [][(Pressed("press_listing") /\ ListingGuard) =>
           /\ AfterIntake'
           /\ WriteFailed' => sent' = sent]_vars

(* C10, reached: the write of the second of two files failed after the    *)
(* first was written.                                                      *)
C10_Witness ==
    /\ event.kind = "press_listing"
    /\ Len(write_log) = 2
    /\ write_log[2].status = "write_failed"
    /\ write_log[1].name # write_log[2].name
    /\ view = "exception"
    /\ write_log[1].name \in DOMAIN storage

====
